---- MODULE Spec2Model ----
(***************************************************************************)
(* Darte marketplace: the data-access layer (server/storage.ts) over the   *)
(* relational tables of shared/schema.ts, and the route handlers of        *)
(* server/routes.ts that call it.                                          *)
(*                                                                         *)
(* A table is a set of rows (records).  A serial column is drawn from the  *)
(* table's sequence seq[t].  An optional field of a request body or of an  *)
(* insert payload is a set: {} when the key is omitted (undefined), {v}    *)
(* when it is supplied with value v.                                       *)
(***************************************************************************)
EXTENDS Integers, Sequences, FiniteSets, TLC

VARIABLES
    users,               \* table users
    categories,          \* table categories
    products,            \* table products
    favorites,           \* table favorites
    cartItems,           \* table cart_items
    orders,              \* table orders
    sellerApplications,  \* table seller_applications
    seq,                 \* the next value of each table's serial id
    clock,               \* the wall clock read by new Date() / defaultNow()
    res,                 \* the response of the last request or call
    tasks                \* the handlers and startups suspended at an await

vars == <<users, categories, products, favorites, cartItems, orders,
          sellerApplications, seq, clock, res, tasks>>

-----------------------------------------------------------------------------
(* Bounds of the model *)

\* the wall clock stops ticking here
MaxClock == 2
\* rows of the products table a catalogue is drawn with
MaxProducts == 3
\* products created through POST /api/products
MaxCreated == 2
\* ids the favorites sequence hands out
MaxFavorites == 3
\* rows inserted into cart_items
MaxCartItems == 1
\* rows inserted into seller_applications
MaxApplications == 1
\* rows inserted into cart_items by requests that overlap
MaxOverlapCartItems == 2
\* rows inserted into orders
MaxOrders == 2
\* INSERTs that the four routes creating a row for their caller are followed to
MaxRowsPosted == 1
\* INSERTs that the two routes parsing a body with a schema are followed to
MaxSubmissions == 2
\* largest limit asked of getRecommendedProducts
MaxLimit == 2
\* largest quantity a cart row grows to
MaxRowQuantity == 3
\* favorites ids drawn while adds and removals overlap
MaxRaceFavorites == 1
\* cart rows inserted while adds overlap
MaxRaceCartItems == 1
\* INSERTs after which the routes are still followed
MaxInserted == 1

-----------------------------------------------------------------------------
(* Values *)

Null == "NULL"

\* identities issued by the authentication provider (req.user.claims.sub)
UserIds == {"u1", "u2", "u3"}

Roles == {"buyer", "seller", "admin"}

Omitted == {}

Some(v) == {v}

\* the value of an optional field, or d when the key is omitted
Get(opt, d) == IF opt = Omitted THEN d ELSE CHOOSE v \in opt : TRUE

First(rows) == IF rows = {} THEN {} ELSE {CHOOSE r \in rows : TRUE}

-----------------------------------------------------------------------------
(* users *)

getUser(us, id) == First({u \in us : u.id = id})

\* email is UNIQUE; NULL emails never collide
UsersEmailTaken(us, id, email) ==
    email # Null /\ \E u \in us : u.id # id /\ u.email = email

\* mutant: ON CONFLICT (id) DO NOTHING
upsertUserDoNothing(us, userData, now) ==
    LET old == {u \in us : u.id = userData.id}
        row == [id              |-> userData.id,
                email           |-> Get(userData.email, Null),
                firstName       |-> Get(userData.firstName, Null),
                lastName        |-> Get(userData.lastName, Null),
                profileImageUrl |-> Get(userData.profileImageUrl, Null),
                role            |-> Get(userData.role, "buyer"),
                isApproved      |-> Get(userData.isApproved, FALSE),
                createdAt       |-> now,
                updatedAt       |-> now]
    IN  IF old # {}
        THEN [threw |-> FALSE, value |-> {}, users |-> us]
        ELSE IF UsersEmailTaken(us, userData.id, row.email)
        THEN [threw |-> TRUE, value |-> {}, users |-> us]
        ELSE [threw |-> FALSE, value |-> {row}, users |-> us \cup {row}]

\* mutant: on conflict the whole row is overwritten with the payload and the
\* defaults of the columns it omits
upsertUserOverwriting(us, userData, now) ==
    LET old == {u \in us : u.id = userData.id}
        row == [id              |-> userData.id,
                email           |-> Get(userData.email, Null),
                firstName       |-> Get(userData.firstName, Null),
                lastName        |-> Get(userData.lastName, Null),
                profileImageUrl |-> Get(userData.profileImageUrl, Null),
                role            |-> Get(userData.role, "buyer"),
                isApproved      |-> Get(userData.isApproved, FALSE),
                createdAt       |-> IF old = {} THEN now
                                    ELSE (CHOOSE u \in old : TRUE).createdAt,
                updatedAt       |-> now]
    IN  IF UsersEmailTaken(us, userData.id, row.email)
        THEN [threw |-> TRUE, value |-> {}, users |-> us]
        ELSE [threw |-> FALSE, value |-> {row}, users |-> (us \ old) \cup {row}]

\* INSERT ... ON CONFLICT (id) DO UPDATE SET {...userData, updatedAt: now}
upsertUser(us, userData, now) ==
    LET old == {u \in us : u.id = userData.id}
        row == IF old = {}
               THEN [id              |-> userData.id,
                     email           |-> Get(userData.email, Null),
                     firstName       |-> Get(userData.firstName, Null),
                     lastName        |-> Get(userData.lastName, Null),
                     profileImageUrl |-> Get(userData.profileImageUrl, Null),
                     role            |-> Get(userData.role, "buyer"),
                     isApproved      |-> Get(userData.isApproved, FALSE),
                     createdAt       |-> now,
                     updatedAt       |-> now]
               ELSE LET o == CHOOSE u \in old : TRUE
                    IN  [id              |-> o.id,
                         email           |-> Get(userData.email, o.email),
                         firstName       |-> Get(userData.firstName, o.firstName),
                         lastName        |-> Get(userData.lastName, o.lastName),
                         profileImageUrl |-> Get(userData.profileImageUrl, o.profileImageUrl),
                         role            |-> Get(userData.role, o.role),
                         isApproved      |-> Get(userData.isApproved, o.isApproved),
                         createdAt       |-> o.createdAt,
                         updatedAt       |-> now]
    IN  IF UsersEmailTaken(us, userData.id, row.email)
        THEN [threw |-> TRUE, value |-> {}, users |-> us]
        ELSE [threw |-> FALSE, value |-> {row}, users |-> (us \ old) \cup {row}]

-----------------------------------------------------------------------------
(* categories *)

\* SELECT ... FROM categories ORDER BY name: the rows; their order is not
\* modelled, the callers here use their number only
getCategories(cats) == cats

\* UNIQUE (name), UNIQUE (slug): a category's slug is its name in lower case
CategoriesUniqueViolation(cats, name) == \E c \in cats : c.name = name

\* INSERT INTO categories
createCategory(cats, id, category) ==
    IF CategoriesUniqueViolation(cats, category.name)
    THEN [threw |-> TRUE, value |-> {}, categories |-> cats]
    ELSE LET newCategory == [id |-> id, name |-> category.name]
         IN  [threw |-> FALSE, value |-> {newCategory},
              categories |-> cats \cup {newCategory}]

-----------------------------------------------------------------------------
(* products *)

\* a JavaScript number used as a condition: undefined, NaN and 0 are falsy
Truthy(opt) == opt # Omitted /\ opt # Some(0)

\* the rows as a list, newest first: createdAt is defaultNow() at insert, so
\* it grows with the serial id
RECURSIVE NewestFirst(_)
NewestFirst(rows) ==
    IF rows = {} THEN <<>>
    ELSE LET r == CHOOSE x \in rows : \A y \in rows : y.id <= x.id
         IN  <<r>> \o NewestFirst(rows \ {r})

\* mutant: the category filter drops the approval filter
getProductsOfAnyApproval(ps, categoryId) ==
    IF Truthy(categoryId)
    THEN NewestFirst({p \in ps : Some(p.categoryId) = categoryId})
    ELSE NewestFirst({p \in ps : p.isApproved = TRUE})

getProducts(ps, categoryId) ==
    IF Truthy(categoryId)
    THEN NewestFirst({p \in ps : p.isApproved = TRUE /\ Some(p.categoryId) = categoryId})
    ELSE NewestFirst({p \in ps : p.isApproved = TRUE})

getProduct(ps, id) == First({p \in ps : p.id = id})

\* every list of the rows, each row once (the orders a SELECT may return them in)
RECURSIVE Listings(_)
Listings(rows) ==
    IF rows = {} THEN {<<>>}
    ELSE UNION {{<<r>> \o l : l \in Listings(rows \ {r})} : r \in rows}

\* mutant: ORDER BY favorite_count ASC
ByFavoriteCountAsc(l) ==
    \A i \in 1..Len(l) : \A j \in 1..Len(l) :
        i < j => l[i].favoriteCount <= l[j].favoriteCount

\* ORDER BY favorite_count DESC leaves the order of equal counts to the store
ByFavoriteCountDesc(l) ==
    \A i \in 1..Len(l) : \A j \in 1..Len(l) :
        i < j => l[i].favoriteCount >= l[j].favoriteCount

Limit(l, limit) == SubSeq(l, 1, IF limit < Len(l) THEN limit ELSE Len(l))

\* the lists getRecommendedProducts(limit) may return
getRecommendedProducts(ps, limit) ==
    {Limit(l, limit) :
        l \in {x \in Listings({p \in ps : p.isApproved = TRUE}) : ByFavoriteCountDesc(x)}}

\* INSERT INTO products: isApproved defaults to false, favoriteCount to 0
createProduct(ps, id, product) ==
    LET row == [id            |-> id,
                sellerId      |-> product.sellerId,
                categoryId    |-> product.categoryId,
                isApproved    |-> Get(product.isApproved, FALSE),
                favoriteCount |-> Get(product.favoriteCount, 0)]
    IN  [value |-> {row}, products |-> ps \cup {row}]

-----------------------------------------------------------------------------
(* favorites *)

\* mutant: the table has no key on the pair
NoFavoritesPk(favs, userId, productId) == FALSE

\* PRIMARY KEY (user_id, product_id)
FavoritesPkViolation(favs, userId, productId) ==
    \E f \in favs : f.userId = userId /\ f.productId = productId

\* mutant: the count forgets its WHERE clause
CountAllFavorites(favs, productId) == Cardinality(favs)

\* SELECT ... FROM favorites WHERE product_id = productId; count.length
CountFavorites(favs, productId) ==
    Cardinality({f \in favs : f.productId = productId})

\* mutant: the update forgets its WHERE clause
SetEveryFavoriteCount(ps, productId, n) ==
    {[p EXCEPT !.favoriteCount = n] : p \in ps}

\* UPDATE products SET favorite_count = n WHERE id = productId
SetFavoriteCount(ps, productId, n) ==
    {IF p.id = productId THEN [p EXCEPT !.favoriteCount = n] ELSE p : p \in ps}

\* favorite.productId is {} when the caller passed undefined (NOT NULL column)
addToFavorites(favs, ps, id, favorite) ==
    IF favorite.productId = Omitted
       \/ FavoritesPkViolation(favs, favorite.userId, Get(favorite.productId, 0))
    THEN [threw |-> TRUE, value |-> {}, favorites |-> favs, products |-> ps]
    ELSE LET productId   == Get(favorite.productId, 0)
             newFavorite == [id |-> id, userId |-> favorite.userId,
                             productId |-> productId]
             inserted    == favs \cup {newFavorite}
         IN  [threw     |-> FALSE,
              value     |-> {newFavorite},
              favorites |-> inserted,
              products  |-> SetFavoriteCount(ps, productId,
                                             CountFavorites(inserted, productId))]

\* mutant: the DELETE forgets the product in its WHERE clause
removeFromFavoritesOfUser(favs, ps, userId, productId) ==
    IF productId = Omitted
    THEN [threw |-> TRUE, favorites |-> favs, products |-> ps]
    ELSE LET pid     == Get(productId, 0)
             deleted == {f \in favs : f.userId # userId}
         IN  [threw     |-> FALSE,
              favorites |-> deleted,
              products  |-> SetFavoriteCount(ps, pid, CountFavorites(deleted, pid))]

\* productId is {} for NaN, which the store rejects as an integer
removeFromFavorites(favs, ps, userId, productId) ==
    IF productId = Omitted
    THEN [threw |-> TRUE, favorites |-> favs, products |-> ps]
    ELSE LET pid     == Get(productId, 0)
             deleted == {f \in favs : ~(f.userId = userId /\ f.productId = pid)}
         IN  [threw     |-> FALSE,
              favorites |-> deleted,
              products  |-> SetFavoriteCount(ps, pid, CountFavorites(deleted, pid))]

-----------------------------------------------------------------------------
(* cart_items *)

\* a || b on numbers: 0 is falsy
OrElse(a, b) == IF a = 0 THEN b ELSE a

\* mutant: the quantity of an existing row is replaced, not added to
addToCartReplacing(cart, id, cartItem) ==
    IF cartItem.productId = Omitted
    THEN {[threw |-> TRUE, value |-> {}, cartItems |-> cart]}
    ELSE LET productId == Get(cartItem.productId, 0)
             existing  == {c \in cart : c.userId = cartItem.userId
                                        /\ c.productId = productId}
         IN  IF existing # {}
             THEN {LET updatedItem ==
                        [existingItem EXCEPT !.quantity = OrElse(cartItem.quantity, 1)]
                   IN  [threw     |-> FALSE,
                        value     |-> {updatedItem},
                        cartItems |-> {IF c.id = existingItem.id THEN updatedItem ELSE c
                                         : c \in cart}]
                   : existingItem \in existing}
             ELSE {LET newCartItem == [id |-> id, userId |-> cartItem.userId,
                                       productId |-> productId,
                                       quantity |-> cartItem.quantity]
                   IN  [threw     |-> FALSE,
                        value     |-> {newCartItem},
                        cartItems |-> cart \cup {newCartItem}]}

\* the outcomes of addToCart: one per row the SELECT may return first
addToCart(cart, id, cartItem) ==
    IF cartItem.productId = Omitted
    THEN {[threw |-> TRUE, value |-> {}, cartItems |-> cart]}
    ELSE LET productId == Get(cartItem.productId, 0)
             existing  == {c \in cart : c.userId = cartItem.userId
                                        /\ c.productId = productId}
         IN  IF existing # {}
             THEN {LET updatedItem ==
                        [existingItem EXCEPT !.quantity =
                            OrElse(existingItem.quantity, 0) + OrElse(cartItem.quantity, 1)]
                   IN  [threw     |-> FALSE,
                        value     |-> {updatedItem},
                        cartItems |-> {IF c.id = existingItem.id THEN updatedItem ELSE c
                                         : c \in cart}]
                   : existingItem \in existing}
             ELSE {LET newCartItem == [id |-> id, userId |-> cartItem.userId,
                                       productId |-> productId,
                                       quantity |-> cartItem.quantity]
                   IN  [threw     |-> FALSE,
                        value     |-> {newCartItem},
                        cartItems |-> cart \cup {newCartItem}]}

\* id is {} for NaN
removeFromCart(cart, id) ==
    IF id = Omitted
    THEN [threw |-> TRUE, cartItems |-> cart]
    ELSE [threw |-> FALSE, cartItems |-> {c \in cart : Some(c.id) # id}]

-----------------------------------------------------------------------------
(* orders *)

\* INSERT INTO orders: productId, sellerId, quantity and totalPrice are NOT
\* NULL and have no default; status defaults to pending
createOrder(os, id, order) ==
    IF Omitted \in {order.productId, order.sellerId, order.quantity, order.totalPrice}
    THEN [threw |-> TRUE, value |-> {}, orders |-> os]
    ELSE LET newOrder == [id        |-> id,
                          userId    |-> order.userId,
                          productId |-> Get(order.productId, 0),
                          sellerId  |-> Get(order.sellerId, Null),
                          quantity  |-> Get(order.quantity, 0),
                          status    |-> "pending"]
         IN  [threw |-> FALSE, value |-> {newOrder}, orders |-> os \cup {newOrder}]

-----------------------------------------------------------------------------
(* seller_applications *)

getSellerApplications(apps) == NewestFirst(apps)

\* INSERT INTO seller_applications: status defaults to pending
createSellerApplication(apps, id, application) ==
    LET row == [id     |-> id,
                userId |-> application.userId,
                status |-> Get(application.status, "pending")]
    IN  [value |-> {row}, sellerApplications |-> apps \cup {row}]

\* mutant: only a pending application is updated
updateSellerApplicationStatusOfPending(apps, id, status) ==
    IF id = Omitted \/ status = Omitted
    THEN [threw |-> TRUE, value |-> {}, sellerApplications |-> apps]
    ELSE LET matched == {x \in apps : Some(x.id) = id /\ x.status = "pending"}
             updated == {[a EXCEPT !.status = Get(status, Null)] : a \in matched}
         IN  [threw |-> FALSE,
              value |-> First(updated),
              sellerApplications |-> (apps \ matched) \cup updated]

\* UPDATE ... SET status WHERE id RETURNING: id is {} for NaN and status {} for
\* undefined (nothing to set), both of which throw; no row gives no value
updateSellerApplicationStatus(apps, id, status) ==
    IF id = Omitted \/ status = Omitted
    THEN [threw |-> TRUE, value |-> {}, sellerApplications |-> apps]
    ELSE LET updated == {[a EXCEPT !.status = Get(status, Null)]
                           : a \in {x \in apps : Some(x.id) = id}}
         IN  [threw |-> FALSE,
              value |-> First(updated),
              sellerApplications |-> {a \in apps : Some(a.id) # id} \cup updated]

-----------------------------------------------------------------------------
(* Inputs of the requests *)

\* product ids a request names: 1 and 2, and 3 for one that may not exist
ProductIds == {1, 2, 3}

CategoryIds == {1, 2}

FavoriteCounts == {0, 1, 2}

\* a path parameter through parseInt: {} is NaN
IdParams == {Omitted, Some(1), Some(2)}

Quantities == {-1, 0, 1, 2}

StatusValues == {"approved", "rejected", "on hold"}

\* POST /api/products: wellFormed says whether insertProductSchema.parse
\* accepts the body (name, description, price, imageUrl, sellerId, categoryId)
ProductBodies ==
    [wellFormed    : {TRUE},
     sellerId      : {"u1", "u3"},
     categoryId    : CategoryIds,
     isApproved    : {Omitted, Some(TRUE), Some(FALSE)},
     favoriteCount : {Omitted, Some(2)}]
    \cup
    [wellFormed    : {FALSE},
     sellerId      : {"u1"},
     categoryId    : {1},
     isApproved    : {Omitted},
     favoriteCount : {Omitted}]

\* a body may carry a userId of its own, which no handler reads
FavoriteBodies ==
    [productId : {Omitted} \cup {Some(i) : i \in ProductIds},
     userId    : {Omitted, Some("u1")}]

CartBodies ==
    [productId : {Omitted, Some(1), Some(2)},
     quantity  : {Omitted} \cup {Some(q) : q \in Quantities},
     userId    : {Omitted, Some("u1")}]

\* POST /api/orders: a complete body, with or without a userId of its own,
\* and the bodies that lack one of the fields the handler reads
OrderBodies ==
    [productId  : {Some(1), Some(2)},
     sellerId   : {Some("u1"), Some("u2")},
     quantity   : {Some(1)},
     totalPrice : {Some(10)},
     userId     : {Omitted, Some("u1")}]
    \cup
    {b \in [productId  : {Omitted, Some(1)},
            sellerId   : {Omitted, Some("u1")},
            quantity   : {Omitted, Some(1)},
            totalPrice : {Omitted, Some(10)},
            userId     : {Omitted}] :
        Cardinality({f \in {"productId", "sellerId", "quantity", "totalPrice"} :
                        b[f] = Omitted}) = 1}

\* POST /api/seller-applications: wellFormed says whether
\* insertSellerApplicationSchema.parse accepts the body
ApplicationBodies ==
    [wellFormed : {TRUE},
     userId     : {"u1", "u3"},
     status     : {Omitted, Some("approved")}]
    \cup
    [wellFormed : {FALSE},
     userId     : {"u1"},
     status     : {Omitted}]

\* the status of a PATCH body: any string, or none
StatusOptions == {Omitted} \cup {Some(s) : s \in StatusValues}

StatusBodies == [status : StatusOptions]

-----------------------------------------------------------------------------
(* Handlers in progress *)

\* the handlers, or server processes, that may run at the same time
Tasks == {"t1", "t2"}

\* a handler between two awaits: the statement it resumes at (pc), the request
\* it serves and what its last query returned
\* value is what it is going to answer with
Suspended(pc, route, caller, req, value, found) ==
    [pc |-> pc, route |-> route, caller |-> caller, req |-> req, value |-> value,
     found |-> found]

\* no request in progress
Idle == Suspended("idle", "", Omitted, <<>>, {}, {})

\* mutant: every body passes
ParseNeverThrows(body) == FALSE

\* insertProductSchema.parse(req.body), insertSellerApplicationSchema.parse(req.body):
\* throws a ZodError on a body the schema does not accept
ParseThrows(body) == ~body.wellFormed

-----------------------------------------------------------------------------
(* Responses *)

Json(route, caller, req, body) ==
    [route |-> route, caller |-> caller, req |-> req, status |-> 200,
     message |-> "", body |-> body]

Message(route, caller, req, status, message) ==
    [route |-> route, caller |-> caller, req |-> req, status |-> status,
     message |-> message, body |-> {}]

ProtectedRoutes ==
    {"GET /api/auth/user", "POST /api/products", "GET /api/favorites",
     "POST /api/favorites", "DELETE /api/favorites/:productId", "GET /api/cart",
     "POST /api/cart", "DELETE /api/cart/:id", "GET /api/orders", "POST /api/orders",
     "POST /api/seller-applications", "GET /api/seller-applications/me",
     "GET /api/admin/applications", "PATCH /api/admin/applications/:id"}

\* isAuthenticated: a request without a valid session never reaches its handler
Unauthenticated ==
    /\ \E route \in ProtectedRoutes :
          res' = Message(route, Omitted, <<>>, 401, "Unauthorized")
    /\ UNCHANGED <<tasks, users, categories, products, favorites, cartItems, orders,
                   sellerApplications, seq, clock>>

\* time passes between requests
Tick ==
    /\ clock < MaxClock
    /\ clock' = clock + 1
    /\ UNCHANGED <<tasks, users, categories, products, favorites, cartItems, orders,
                   sellerApplications, seq, res>>

-----------------------------------------------------------------------------
(* Startup *)

\* defaultCategories of initializeCategories, by name
DefaultCategories ==
    <<[name |-> "Men"], [name |-> "Women"], [name |-> "Gadgets"],
      [name |-> "Clothing"], [name |-> "Jewelry"], [name |-> "Gifts"]>>

\* mutant: the test is inverted
SeedsWhenNotEmpty(existingCategories) == Cardinality(existingCategories) # 0

\* existingCategories.length === 0
SeedsWhenEmpty(existingCategories) == Cardinality(existingCategories) = 0

\* initializeCategories returned (it returns nothing, and catches what it throws)
Started == Json("initializeCategories", Omitted, <<>>, {})

\* a server process starts: initializeCategories up to its getCategories;
\* found is what that returned, value the index of the next default to create
StartupRead(t) ==
    LET existingCategories == getCategories(categories)
    IN  /\ tasks[t].pc = "idle"
        /\ IF SeedsWhenEmpty(existingCategories)
           THEN /\ tasks' = [tasks EXCEPT ![t] =
                                Suspended("create", "initializeCategories", Omitted, <<>>,
                                          {1}, existingCategories)]
                /\ res' = res
           ELSE /\ tasks' = tasks
                /\ res' = Started
        /\ UNCHANGED <<users, categories, products, favorites, cartItems, orders,
                       sellerApplications, seq, clock>>

\* one createCategory of the loop; a failed INSERT has drawn its id from the
\* sequence, and ends the loop in the catch
StartupCreate(t) ==
    LET i == Get(tasks[t].value, 0)
        r == createCategory(categories, seq.categories, DefaultCategories[i])
    IN  /\ tasks[t].pc = "create"
        /\ categories' = r.categories
        /\ seq' = [seq EXCEPT !.categories = @ + 1]
        /\ IF r.threw \/ i = Len(DefaultCategories)
           THEN tasks' = [tasks EXCEPT ![t] = Idle] /\ res' = Started
           ELSE /\ tasks' = [tasks EXCEPT ![t] = [tasks[t] EXCEPT !.value = {i + 1}]]
                /\ res' = res
        /\ UNCHANGED <<users, products, favorites, cartItems, orders,
                       sellerApplications, clock>>

\* GET /api/categories
GetCategories ==
    /\ res' = Json("GET /api/categories", Omitted, <<>>, getCategories(categories))
    /\ UNCHANGED <<tasks, users, categories, products, favorites, cartItems, orders,
                   sellerApplications, seq, clock>>

-----------------------------------------------------------------------------
(* Product routes *)

GetProducts ==
    /\ \E categoryId \in {Omitted, Some(0)} \cup {Some(c) : c \in CategoryIds} :
          res' = Json("GET /api/products", Omitted, categoryId,
                      getProducts(products, categoryId))
    /\ UNCHANGED <<tasks, users, categories, products, favorites, cartItems, orders,
                   sellerApplications, seq, clock>>

GetRecommendedProducts ==
    /\ \E limit \in {Omitted} \cup {Some(n) : n \in 0..MaxLimit} :
       \E list \in getRecommendedProducts(products, Get(limit, 4)) :
          res' = Json("GET /api/products/recommended", Omitted, limit, list)
    /\ UNCHANGED <<tasks, users, categories, products, favorites, cartItems, orders,
                   sellerApplications, seq, clock>>

GetProductById ==
    /\ \E id \in 1..MaxProducts :
          LET product == getProduct(products, id)
          IN  res' = IF product = {}
                     THEN Message("GET /api/products/:id", Omitted, id, 404, "Product not found")
                     ELSE Json("GET /api/products/:id", Omitted, id, product)
    /\ UNCHANGED <<tasks, users, categories, products, favorites, cartItems, orders,
                   sellerApplications, seq, clock>>

\* mutant: only the absence of the row is checked
MayNotCreateProductsUnlessKnown(user) == user = {}

\* !user || (user.role !== 'seller' && user.role !== 'admin')
MayNotCreateProducts(user) ==
    user = {} \/ \E u \in user : u.role # "seller" /\ u.role # "admin"

\* mutant: the body's isApproved, when it has one, is kept
NewProductAsPosted(productData, userId, role) ==
    [sellerId      |-> userId,
     categoryId    |-> productData.categoryId,
     isApproved    |-> IF productData.isApproved = Omitted THEN Some(role = "admin")
                       ELSE productData.isApproved,
     favoriteCount |-> productData.favoriteCount]

\* mutant: the sellerId of the body is kept
NewProductOfPostedSeller(productData, userId, role) ==
    [sellerId      |-> productData.sellerId,
     categoryId    |-> productData.categoryId,
     isApproved    |-> Some(role = "admin"),
     favoriteCount |-> productData.favoriteCount]

\* { ...productData, sellerId: userId, isApproved: user.role === 'admin' }
NewProduct(productData, userId, role) ==
    [sellerId      |-> userId,
     categoryId    |-> productData.categoryId,
     isApproved    |-> Some(role = "admin"),
     favoriteCount |-> productData.favoriteCount]

PostProducts ==
    \E userId \in UserIds : \E body \in ProductBodies :
        LET user == getUser(users, userId)
            role == IF user = {} THEN Null ELSE (CHOOSE u \in user : TRUE).role
        IN  IF MayNotCreateProducts(user)
            THEN /\ res' = Message("POST /api/products", Some(userId), body, 403,
                                 "Only approved sellers can create products")
                 /\ UNCHANGED <<tasks, users, categories, products, favorites, cartItems,
                                orders, sellerApplications, seq, clock>>
            ELSE IF ParseThrows(body)
            THEN /\ res' = Message("POST /api/products", Some(userId), body, 500,
                                 "Failed to create product")
                 /\ UNCHANGED <<tasks, users, categories, products, favorites, cartItems,
                                orders, sellerApplications, seq, clock>>
            ELSE /\ seq.products <= MaxCreated
                 /\ LET r == createProduct(products, seq.products,
                                           NewProduct(body, userId, role))
                    IN  /\ products' = r.products
                        /\ res' = Json("POST /api/products", Some(userId), body, r.value)
                 /\ seq' = [seq EXCEPT !.products = @ + 1]
                 /\ UNCHANGED <<tasks, users, categories, favorites, cartItems, orders,
                                sellerApplications, clock>>

-----------------------------------------------------------------------------
(* Favorites routes *)

\* a failed INSERT has drawn its id from the sequence all the same
PostFavorites ==
    \E userId \in UserIds : \E body \in FavoriteBodies :
        /\ seq.favorites <= MaxFavorites
        /\ LET r == addToFavorites(favorites, products, seq.favorites,
                                   [userId |-> userId, productId |-> body.productId])
           IN  /\ favorites' = r.favorites
               /\ products' = r.products
               /\ res' = IF r.threw
                         THEN Message("POST /api/favorites", Some(userId), body, 500,
                                    "Failed to add to favorites")
                         ELSE Json("POST /api/favorites", Some(userId), body, r.value)
        /\ seq' = [seq EXCEPT !.favorites = @ + 1]
        /\ UNCHANGED <<tasks, users, categories, cartItems, orders, sellerApplications, clock>>

DeleteFavorites ==
    \E userId \in UserIds : \E productId \in IdParams :
        /\ LET r == removeFromFavorites(favorites, products, userId, productId)
           IN  /\ favorites' = r.favorites
               /\ products' = r.products
               /\ res' = IF r.threw
                         THEN Message("DELETE /api/favorites/:productId", Some(userId),
                                    productId, 500, "Failed to remove from favorites")
                         ELSE Message("DELETE /api/favorites/:productId", Some(userId),
                                    productId, 200, "Removed from favorites")
        /\ UNCHANGED <<tasks, users, categories, cartItems, orders, sellerApplications,
                       seq, clock>>

-----------------------------------------------------------------------------
(* Favorites routes, one statement of the data-access layer at a time *)

\* the product a favorites request in progress is about: the path parameter
\* of a DELETE, the body's productId of a POST
TaskProductId(task) ==
    IF task.route = "DELETE /api/favorites/:productId"
    THEN Get(task.req, 0)
    ELSE Get(task.req.productId, 0)

\* POST /api/favorites up to the INSERT of addToFavorites, which throws on a
\* missing productId and on the primary key
FavoritesInsert(t) ==
    \E userId \in UserIds : \E body \in FavoriteBodies :
        /\ tasks[t].pc = "idle"
        /\ seq.favorites <= MaxFavorites
        /\ seq' = [seq EXCEPT !.favorites = @ + 1]
        /\ IF body.productId = Omitted
              \/ FavoritesPkViolation(favorites, userId, Get(body.productId, 0))
           THEN /\ res' = Message("POST /api/favorites", Some(userId), body, 500,
                                  "Failed to add to favorites")
                /\ UNCHANGED <<favorites, tasks>>
           ELSE LET newFavorite == [id |-> seq.favorites, userId |-> userId,
                                    productId |-> Get(body.productId, 0)]
                IN  /\ favorites' = favorites \cup {newFavorite}
                    /\ tasks' = [tasks EXCEPT ![t] =
                                    Suspended("count", "POST /api/favorites", Some(userId),
                                              body, {newFavorite}, {})]
                    /\ res' = res
        /\ UNCHANGED <<users, categories, products, cartItems, orders,
                       sellerApplications, clock>>

\* the SELECT that counts the product's favorites
FavoritesCount(t) ==
    /\ tasks[t].pc = "count"
    /\ tasks' = [tasks EXCEPT ![t] =
                    [tasks[t] EXCEPT
                        !.pc = "update",
                        !.found = {CountFavorites(favorites, TaskProductId(tasks[t]))}]]
    /\ UNCHANGED <<users, categories, products, favorites, cartItems, orders,
                   sellerApplications, seq, clock, res>>

\* the UPDATE of products.favoriteCount with the count read, and the answer
FavoritesUpdate(t) ==
    /\ tasks[t].pc = "update"
    /\ products' = SetFavoriteCount(products, TaskProductId(tasks[t]),
                                    Get(tasks[t].found, 0))
    /\ res' = IF tasks[t].route = "DELETE /api/favorites/:productId"
              THEN Message(tasks[t].route, tasks[t].caller, tasks[t].req, 200,
                           "Removed from favorites")
              ELSE Json(tasks[t].route, tasks[t].caller, tasks[t].req, tasks[t].value)
    /\ tasks' = [tasks EXCEPT ![t] = Idle]
    /\ UNCHANGED <<users, categories, favorites, cartItems, orders,
                   sellerApplications, seq, clock>>

\* DELETE /api/favorites/:productId up to the DELETE of removeFromFavorites,
\* which throws on a productId that is no integer
FavoritesDelete(t) ==
    \E userId \in UserIds : \E productId \in IdParams :
        /\ tasks[t].pc = "idle"
        /\ IF productId = Omitted
           THEN /\ res' = Message("DELETE /api/favorites/:productId", Some(userId),
                                  productId, 500, "Failed to remove from favorites")
                /\ UNCHANGED <<favorites, tasks>>
           ELSE /\ favorites' = {f \in favorites :
                                   ~(f.userId = userId /\ Some(f.productId) = productId)}
                /\ tasks' = [tasks EXCEPT ![t] =
                                Suspended("count", "DELETE /api/favorites/:productId",
                                          Some(userId), productId, {}, {})]
                /\ res' = res
        /\ UNCHANGED <<users, categories, products, cartItems, orders,
                       sellerApplications, seq, clock>>

-----------------------------------------------------------------------------
(* Cart routes *)

PostCart ==
    \E userId \in UserIds : \E body \in CartBodies :
    \E r \in addToCart(cartItems, seq.cartItems,
                       [userId |-> userId, productId |-> body.productId,
                        quantity |-> Get(body.quantity, 1)]) :
        LET inserted == Cardinality(r.cartItems) > Cardinality(cartItems)
        IN  /\ inserted => seq.cartItems <= MaxCartItems
            /\ \A c \in r.cartItems : c.quantity \in -MaxRowQuantity..MaxRowQuantity
            /\ cartItems' = r.cartItems
            /\ seq' = IF inserted THEN [seq EXCEPT !.cartItems = @ + 1] ELSE seq
            /\ res' = IF r.threw
                      THEN Message("POST /api/cart", Some(userId), body, 500,
                                   "Failed to add to cart")
                      ELSE Json("POST /api/cart", Some(userId), body, r.value)
            /\ UNCHANGED <<tasks, users, categories, products, favorites, orders,
                           sellerApplications, clock>>

DeleteCart ==
    \E userId \in UserIds : \E id \in IdParams :
        /\ LET r == removeFromCart(cartItems, id)
           IN  /\ cartItems' = r.cartItems
               /\ res' = IF r.threw
                         THEN Message("DELETE /api/cart/:id", Some(userId), id, 500,
                                      "Failed to remove from cart")
                         ELSE Message("DELETE /api/cart/:id", Some(userId), id, 200,
                                      "Removed from cart")
        /\ UNCHANGED <<tasks, users, categories, products, favorites, orders,
                       sellerApplications, seq, clock>>

-----------------------------------------------------------------------------
(* POST /api/cart, one statement of the data-access layer at a time *)

\* the adds that overlap: two buyers', of either product, of the default
\* quantity or of 2
OverlapCartBodies ==
    {b \in CartBodies : /\ b.productId # Omitted
                        /\ b.quantity \in {Omitted, Some(2)}
                        /\ b.userId = Omitted}

\* POST /api/cart up to the SELECT of addToCart; [existingItem] is the first
\* row the store returns, any of those that match
CartSelect(t) ==
    \E userId \in {"u2", "u3"} : \E body \in OverlapCartBodies :
        LET existing == {c \in cartItems : /\ c.userId = userId
                                           /\ Some(c.productId) = body.productId}
        IN  /\ tasks[t].pc = "idle"
            /\ \E found \in IF existing = {} THEN {{}} ELSE {{c} : c \in existing} :
                  tasks' = [tasks EXCEPT ![t] =
                              Suspended("write", "POST /api/cart", Some(userId), body,
                                        {}, found)]
            /\ UNCHANGED <<users, categories, products, favorites, cartItems, orders,
                           sellerApplications, seq, clock, res>>

\* mutant: the UPDATE adds to the quantity the row has when it runs
SetQuantityOfRow(existingItem, row, quantity) ==
    OrElse(row.quantity, 0) + OrElse(quantity, 1)

\* .set({ quantity: (existingItem.quantity || 0) + (cartItem.quantity || 1) }):
\* the sum is computed by the handler from the row it read
SetQuantity(existingItem, row, quantity) ==
    OrElse(existingItem.quantity, 0) + OrElse(quantity, 1)

\* the UPDATE of the row that was found, by its id and from the quantity that
\* was read, or the INSERT of a new row when none was found
CartWrite(t) ==
    LET task     == tasks[t]
        userId   == Get(task.caller, Null)
        quantity == Get(task.req.quantity, 1)
    IN  /\ task.pc = "write"
        /\ IF task.found # {}
           THEN LET existingItem == CHOOSE c \in task.found : TRUE
                    updated == {[c EXCEPT !.quantity = SetQuantity(existingItem, c, quantity)]
                                  : c \in {x \in cartItems : x.id = existingItem.id}}
                IN  /\ cartItems' = {c \in cartItems : c.id # existingItem.id}
                                      \cup updated
                    /\ res' = Json(task.route, task.caller, task.req, updated)
                    /\ seq' = seq
           ELSE LET newCartItem == [id |-> seq.cartItems, userId |-> userId,
                                    productId |-> Get(task.req.productId, 0),
                                    quantity |-> quantity]
                IN  /\ seq.cartItems <= MaxOverlapCartItems
                    /\ cartItems' = cartItems \cup {newCartItem}
                    /\ res' = Json(task.route, task.caller, task.req, {newCartItem})
                    /\ seq' = [seq EXCEPT !.cartItems = @ + 1]
        /\ \A c \in cartItems' : c.quantity \in -MaxRowQuantity..MaxRowQuantity
        /\ tasks' = [tasks EXCEPT ![t] = Idle]
        /\ UNCHANGED <<users, categories, products, favorites, orders,
                       sellerApplications, clock>>

-----------------------------------------------------------------------------
(* Order routes *)

\* mutant: the body's userId, when it has one, is kept
NewOrderAsPosted(body, userId) ==
    [userId     |-> Get(body.userId, userId),
     productId  |-> body.productId,
     sellerId   |-> body.sellerId,
     quantity   |-> body.quantity,
     totalPrice |-> body.totalPrice]

\* { userId, productId, sellerId, quantity, totalPrice } of the identity and
\* the body's fields
NewOrder(body, userId) ==
    [userId     |-> userId,
     productId  |-> body.productId,
     sellerId   |-> body.sellerId,
     quantity   |-> body.quantity,
     totalPrice |-> body.totalPrice]

\* a failed INSERT has drawn its id from the sequence all the same
PostOrders ==
    \E userId \in UserIds : \E body \in OrderBodies :
        /\ seq.orders <= MaxOrders
        /\ LET r == createOrder(orders, seq.orders, NewOrder(body, userId))
           IN  /\ orders' = r.orders
               /\ res' = IF r.threw
                         THEN Message("POST /api/orders", Some(userId), body, 500,
                                      "Failed to create order")
                         ELSE Json("POST /api/orders", Some(userId), body, r.value)
        /\ seq' = [seq EXCEPT !.orders = @ + 1]
        /\ UNCHANGED <<tasks, users, categories, products, favorites, cartItems,
                       sellerApplications, clock>>

-----------------------------------------------------------------------------
(* Seller application and admin routes *)

PostSellerApplications ==
    \E userId \in UserIds : \E body \in ApplicationBodies :
        IF ParseThrows(body)
        THEN /\ res' = Message("POST /api/seller-applications", Some(userId), body, 500,
                               "Failed to create seller application")
             /\ UNCHANGED <<tasks, users, categories, products, favorites, cartItems, orders,
                            sellerApplications, seq, clock>>
        ELSE /\ seq.sellerApplications <= MaxApplications
             /\ LET r == createSellerApplication(sellerApplications, seq.sellerApplications,
                             [userId |-> userId, status |-> body.status])
                IN  /\ sellerApplications' = r.sellerApplications
                    /\ res' = Json("POST /api/seller-applications", Some(userId), body,
                                   r.value)
             /\ seq' = [seq EXCEPT !.sellerApplications = @ + 1]
             /\ UNCHANGED <<tasks, users, categories, products, favorites, cartItems, orders,
                            clock>>

\* mutant: any user with a row passes
IsKnownUser(us, userId) == getUser(us, userId) # {}

\* the negation of !user || user.role !== 'admin'
IsAdmin(us, userId) ==
    \E u \in getUser(us, userId) : u.role = "admin"

\* mutant: every status but a missing one promotes
IsAnyStatus(status) == status # Omitted

\* status === 'approved'
IsApproval(status) == status = Some("approved")

GetAdminApplications ==
    \E userId \in UserIds :
        /\ res' = IF ~IsAdmin(users, userId)
                  THEN Message("GET /api/admin/applications", Some(userId), <<>>, 403,
                               "Admin access required")
                  ELSE Json("GET /api/admin/applications", Some(userId), <<>>,
                            getSellerApplications(sellerApplications))
        /\ UNCHANGED <<tasks, users, categories, products, favorites, cartItems, orders,
                       sellerApplications, seq, clock>>

\* mutant: the approval marks the applicant approved and leaves the role
PromotionKeepingRole(application) ==
    [id              |-> application.userId,
     email           |-> Omitted,
     firstName       |-> Omitted,
     lastName        |-> Omitted,
     profileImageUrl |-> Omitted,
     role            |-> Omitted,
     isApproved      |-> Some(TRUE)]

\* { id: application.userId, role: 'seller', isApproved: true }
Promotion(application) ==
    [id              |-> application.userId,
     email           |-> Omitted,
     firstName       |-> Omitted,
     lastName        |-> Omitted,
     profileImageUrl |-> Omitted,
     role            |-> Some("seller"),
     isApproved      |-> Some(TRUE)]

\* reading application.userId of an absent row throws a TypeError
PatchAdminApplication ==
    \E userId \in UserIds : \E id \in IdParams : \E body \in StatusBodies :
        LET route == "PATCH /api/admin/applications/:id"
            req   == [id |-> id, status |-> body.status]
            r     == updateSellerApplicationStatus(sellerApplications, id, body.status)
            failed == Message(route, Some(userId), req, 500, "Failed to update application")
        IN  IF ~IsAdmin(users, userId)
            THEN /\ res' = Message(route, Some(userId), req, 403, "Admin access required")
                 /\ UNCHANGED <<tasks, users, categories, products, favorites, cartItems, orders,
                                sellerApplications, seq, clock>>
            ELSE /\ sellerApplications' = r.sellerApplications
                 /\ IF r.threw
                    THEN res' = failed /\ users' = users
                    ELSE IF IsApproval(body.status)
                    THEN IF r.value = {}
                         THEN res' = failed /\ users' = users
                         ELSE LET application == CHOOSE a \in r.value : TRUE
                                  u == upsertUser(users, Promotion(application), clock)
                              IN  /\ users' = u.users
                                  /\ res' = IF u.threw THEN failed
                                            ELSE Json(route, Some(userId), req, r.value)
                    ELSE res' = Json(route, Some(userId), req, r.value) /\ users' = users
                 /\ UNCHANGED <<tasks, categories, products, favorites, cartItems, orders,
                                seq, clock>>

-----------------------------------------------------------------------------
(* Calls of the data-access layer from outside the route handlers *)

\* the payloads upsertUser is called with: the profile of u2's login (any of
\* its claims may be missing), and a change of role or approval
UserPayloads ==
    [id : {"u2"},
     email : {Omitted, Some("a@x"), Some("b@x")},
     firstName : {Omitted, Some("Ann")},
     lastName : {Omitted, Some("Lee")},
     profileImageUrl : {Omitted, Some("img")},
     role : {Omitted}, isApproved : {Omitted}]
    \cup
    [id : {"u2", "u3"},
     email : {Omitted}, firstName : {Omitted}, lastName : {Omitted},
     profileImageUrl : {Omitted},
     role : {Omitted} \cup {Some(r) : r \in Roles},
     isApproved : {Omitted, Some(TRUE), Some(FALSE)}]

UpsertUser ==
    \E userData \in UserPayloads :
        LET r == upsertUser(users, userData, clock)
        IN  /\ users' = r.users
            /\ res' = IF r.threw
                      THEN Message("upsertUser", Omitted, userData, 500, "threw")
                      ELSE Json("upsertUser", Omitted, userData, r.value)
            /\ UNCHANGED <<tasks, categories, products, favorites, cartItems, orders,
                           sellerApplications, seq, clock>>

-----------------------------------------------------------------------------
(* Specifications *)

\* a row of users as its first login or a manual grant of a role left it
SeedUser(id, email, role) ==
    [id |-> id, email |-> email, firstName |-> Null, lastName |-> Null,
     profileImageUrl |-> Null, role |-> role, isApproved |-> (role = "seller"),
     createdAt |-> 0, updatedAt |-> 0]

\* an admin and a buyer, u3 never having logged in
AdminAndBuyer == {SeedUser("u1", "a@x", "admin"), SeedUser("u2", Null, "buyer")}

\* an admin, a seller and a buyer
AdminSellerAndBuyer ==
    {SeedUser("u1", "a@x", "admin"), SeedUser("u2", Null, "seller"),
     SeedUser("u3", Null, "buyer")}

\* a row POST /api/products leaves: the admin u1's are approved, the seller u2's
\* are not, and favoriteCount is the body's, or the default 0
ProductRow(id, categoryId, isApproved, favoriteCount) ==
    [id |-> id, sellerId |-> IF isApproved THEN "u1" ELSE "u2",
     categoryId |-> categoryId, isApproved |-> isApproved,
     favoriteCount |-> favoriteCount]

\* the products tables of n rows
Catalogues(n) ==
    {{ProductRow(i, f[i][1], f[i][2], f[i][3]) : i \in 1..n}
        : f \in [1..n -> CategoryIds \X BOOLEAN \X FavoriteCounts]}

\* the server starts on the users us and the products ps, with no other row
Start(us, ps) ==
    /\ users = us
    /\ categories = {}
    /\ products = ps
    /\ favorites = {}
    /\ cartItems = {}
    /\ orders = {}
    /\ sellerApplications = {}
    /\ seq = [categories |-> 1, products |-> Cardinality(ps) + 1, favorites |-> 1,
              cartItems |-> 1, orders |-> 1, sellerApplications |-> 1]
    /\ clock = 1
    /\ res = Message("", Omitted, <<>>, 0, "")
    /\ tasks = [t \in Tasks |-> Idle]

Init == Start(AdminAndBuyer, {}) \/ Start(AdminSellerAndBuyer, {})

\* two products nobody has made a favorite yet
InitFavorites ==
    Start(AdminSellerAndBuyer, {ProductRow(1, 1, TRUE, 0), ProductRow(2, 1, FALSE, 0)})

\* a catalogue of up to MaxProducts products
InitCatalogue ==
    \E n \in 0..MaxProducts : \E ps \in Catalogues(n) : Start(AdminSellerAndBuyer, ps)

\* nothing in any cart
InitCart == Start(AdminSellerAndBuyer, {})

\* three users and no row in any other table
InitEmpty == Start(AdminSellerAndBuyer, {})

\* u2 has a row and u3 has none
InitUsers == Start(AdminAndBuyer, {})

\* the data-access layer's upsertUser under its callers' payloads
NextUsers == UpsertUser

SpecUsers == InitUsers /\ [][NextUsers]_vars

\* reading the catalogue
NextCatalogue == GetProducts \/ GetRecommendedProducts \/ GetProductById

SpecCatalogue == InitCatalogue /\ [][NextCatalogue]_vars

\* creating products
NextProducts == PostProducts \/ GetProductById

SpecProducts == Init /\ [][NextProducts]_vars

\* favorites, one request at a time
NextFavorites == PostFavorites \/ DeleteFavorites

SpecFavorites == InitFavorites /\ [][NextFavorites]_vars

\* the cart, one request at a time
NextCart == PostCart \/ DeleteCart

SpecCart == InitCart /\ [][NextCart]_vars

\* seller applications and their review by an admin
NextAdmin ==
    \/ PostSellerApplications
    \/ GetAdminApplications
    \/ PatchAdminApplication
    \/ Unauthenticated
    \/ Tick

SpecAdmin == Init /\ [][NextAdmin]_vars

\* adding favorites, the statements of the requests in progress interleaving
NextFavoritesConcurrent ==
    \/ \E t \in Tasks : FavoritesInsert(t)
    \/ \E t \in Tasks : FavoritesCount(t)
    \/ \E t \in Tasks : FavoritesUpdate(t)

SpecFavoritesConcurrent == InitFavorites /\ [][NextFavoritesConcurrent]_vars

\* adding and removing favorites, the statements of the requests in progress
\* interleaving, until MaxRaceFavorites ids are drawn
NextFavoritesRace ==
    \/ \E t \in Tasks : seq.favorites <= MaxRaceFavorites /\ FavoritesInsert(t)
    \/ \E t \in Tasks : FavoritesDelete(t)
    \/ \E t \in Tasks : FavoritesCount(t)
    \/ \E t \in Tasks : FavoritesUpdate(t)

SpecFavoritesRace == InitFavorites /\ [][NextFavoritesRace]_vars

\* the cart, the statements of the adds in progress interleaving
NextCartConcurrent ==
    \/ \E t \in Tasks : CartSelect(t)
    \/ \E t \in Tasks : CartWrite(t)
    \/ DeleteCart

SpecCartConcurrent == InitCart /\ [][NextCartConcurrent]_vars

\* adds to the cart overlapping, until MaxRaceCartItems rows are inserted
NextCartRace ==
    \/ \E t \in Tasks : CartSelect(t)
    \/ \E t \in Tasks :
          /\ tasks[t].found = {} => seq.cartItems <= MaxRaceCartItems
          /\ CartWrite(t)

SpecCartRace == InitCart /\ [][NextCartRace]_vars

\* ordering the products of the admin u1 and of the seller u2
NextOrders == PostOrders \/ GetProductById

SpecOrders == InitFavorites /\ [][NextOrders]_vars

\* the INSERTs made so far into the tables whose rows belong to a user
RowsPosted ==
    (seq.favorites - 1) + (seq.cartItems - 1) + (seq.orders - 1)
        + (seq.sellerApplications - 1)

\* the routes that create a row for their caller, up to MaxRowsPosted INSERTs
NextIdentity ==
    \/ RowsPosted < MaxRowsPosted /\ PostFavorites
    \/ RowsPosted < MaxRowsPosted /\ PostCart
    \/ RowsPosted < MaxRowsPosted /\ PostOrders
    \/ RowsPosted < MaxRowsPosted /\ PostSellerApplications

SpecIdentity == InitEmpty /\ [][NextIdentity]_vars

\* server processes starting, any number of times, on one database
NextStartup ==
    \/ \E t \in Tasks : StartupRead(t)
    \/ \E t \in Tasks : StartupCreate(t)
    \/ GetCategories

SpecStartup == InitEmpty /\ [][NextStartup]_vars

\* the INSERTs made so far into products and seller_applications
Submitted == (seq.products - 1) + (seq.sellerApplications - 1)

\* the routes that parse their body with a schema, up to MaxSubmissions INSERTs
NextSubmissions ==
    \/ Submitted < MaxSubmissions /\ PostProducts
    \/ Submitted < MaxSubmissions /\ PostSellerApplications

SpecSubmissions == InitEmpty /\ [][NextSubmissions]_vars

\* the INSERTs the routes have made
Inserted == RowsPosted + (seq.products - 1)

\* every route, one request at a time, from the states that at most
\* MaxInserted INSERTs have led to; the requests are those for product 1 and
\* row 1, with bodies that name u1 where they carry a userId, and the reviews
\* are approvals and rejections
NextRoutes ==
    /\ Inserted <= MaxInserted
    /\ \/ GetCategories
       \/ GetProducts /\ res'.req = Omitted
       \/ GetRecommendedProducts /\ res'.req = Omitted
       \/ GetProductById /\ res'.req = 1
       \/ PostProducts /\ res'.req.isApproved = Omitted
                       /\ res'.req.favoriteCount = Omitted
                       /\ res'.req.categoryId = 1
       \/ PostFavorites /\ res'.req = [productId |-> Some(1), userId |-> Some("u1")]
       \/ DeleteFavorites /\ res'.req = Some(1)
       \/ PostCart /\ res'.req = [productId |-> Some(1), quantity |-> Omitted,
                                  userId |-> Some("u1")]
       \/ DeleteCart /\ res'.req = Some(1)
       \/ PostOrders /\ res'.req = [productId |-> Some(1), sellerId |-> Some("u1"),
                                    quantity |-> Some(1), totalPrice |-> Some(10),
                                    userId |-> Some("u1")]
       \/ PostSellerApplications /\ res'.req.status = Omitted
       \/ GetAdminApplications
       \/ PatchAdminApplication
             /\ res'.req.status \in {Some("approved"), Some("rejected")}
       \/ Unauthenticated

SpecRoutes == InitEmpty /\ [][NextRoutes]_vars

-----------------------------------------------------------------------------
(* Claims *)

\* the step is a request or call (the clock does not tick during one), and
\* res' is what it answered
Answers(route) == clock' = clock /\ res'.route = route

\* the rows of favorites for a product, and of cart_items for a pair
FavoritesOf(favs, productId) == {f \in favs : f.productId = productId}

CartRowsOf(cart, userId, productId) ==
    {c \in cart : c.userId = userId /\ c.productId = productId}

\* C1: with the favorites requests handled one at a time, every product's
\* favoriteCount is the number of favorites rows that name it.
C1_FavoriteCountIsRowCount ==
    \A p \in products : p.favoriteCount = Cardinality(FavoritesOf(favorites, p.id))

\* three users have made product 1 a favorite and one of them has removed it
C1_Witness ==
    /\ res.route = "DELETE /api/favorites/:productId"
    /\ res.status = 200
    /\ res.req = Some(1)
    /\ Cardinality(FavoritesOf(favorites, 1)) = 2
    /\ \E p \in products : p.id = 1 /\ p.favoriteCount = 2

\* C2: an add to the cart for a pair that has no row leaves exactly one row,
\* with the quantity asked for, and an add of q2 >= 1 for a pair whose one row
\* has quantity q1 >= 1 leaves that one row with quantity q1 + q2 and returns
\* it; so two adds of q1 and q2 from no row leave one row of q1 + q2.
C2_CartAddsMerge ==
    [][\A u \in UserIds : \A p \in ProductIds :
        ( /\ Answers("POST /api/cart")
          /\ res'.caller = Some(u)
          /\ res'.req.productId = Some(p)
          /\ Get(res'.req.quantity, 1) >= 1 )
        => LET q      == Get(res'.req.quantity, 1)
               before == CartRowsOf(cartItems, u, p)
               after  == CartRowsOf(cartItems', u, p)
           IN  /\ before = {} =>
                    /\ Cardinality(after) = 1
                    /\ \A c \in after : c.quantity = q
               /\ \A b \in before :
                    (before = {b} /\ b.quantity >= 1) =>
                        /\ after = {[b EXCEPT !.quantity = b.quantity + q]}
                        /\ res'.status = 200
                        /\ res'.body = after
      ]_vars

\* u2 added 1 and then 2 of product 1: one row, of quantity 3
C2_Witness ==
    /\ res.route = "POST /api/cart"
    /\ res.status = 200
    /\ res.caller = Some("u2")
    /\ res.req.productId = Some(1)
    /\ res.req.quantity = Some(2)
    /\ CartRowsOf(cartItems, "u2", 1) = {[id |-> 1, userId |-> "u2", productId |-> 1,
                                          quantity |-> 3]}
    /\ res.body = CartRowsOf(cartItems, "u2", 1)

\* the last request added a favorite that its caller already had
DuplicateFavorite(r, favs) ==
    /\ r.route = "POST /api/favorites"
    /\ r.caller # Omitted
    /\ r.req.productId # Omitted
    /\ \E f \in favs : Some(f.userId) = r.caller /\ Some(f.productId) = r.req.productId

IsPatch(r, statuses) ==
    /\ r.route = "PATCH /api/admin/applications/:id"
    /\ r.caller # Omitted
    /\ r.req.status \in statuses

\* the user has no row, or a row whose role is not in roles
LacksRole(us, userId, roles) ==
    \A u \in us : Some(u.id) = userId => u.role \notin roles

\* C3: after a PATCH with status "approved" that succeeded, the application
\* returned is that of a user whose row has role seller and isApproved true.
C3_ApprovalPromotesApplicant ==
    (IsPatch(res, {Some("approved")}) /\ res.status = 200) =>
        /\ res.body # {}
        /\ \A a \in res.body :
              /\ a \in sellerApplications
              /\ a.status = "approved"
              /\ \E u \in users :
                    u.id = a.userId /\ u.role = "seller" /\ u.isApproved = TRUE

\* the admin u1 has approved the application of u2, a buyer until then
C3_Witness ==
    /\ IsPatch(res, {Some("approved")})
    /\ res.status = 200
    /\ res.caller = Some("u1")
    /\ \E a \in res.body : a.userId = "u2"
    /\ \E u \in users : u.id = "u2" /\ u.role = "seller" /\ u.updatedAt > u.createdAt

\* C4: a PATCH whose status is not exactly "approved" leaves the users table
\* as it was.
C4_OtherStatusLeavesUsers ==
    [][( /\ Answers("PATCH /api/admin/applications/:id")
         /\ IsPatch(res', StatusOptions \ {Some("approved")}) )
       => users' = users]_vars

\* the admin u1 has rejected the application of u2, who is still a buyer
C4_Witness ==
    /\ IsPatch(res, {Some("rejected")})
    /\ res.status = 200
    /\ \E a \in res.body : a.userId = "u2" /\ a.status = "rejected"
    /\ \E u \in users : u.id = "u2" /\ u.role = "buyer" /\ u.isApproved = FALSE

\* C5: POST /api/products by a caller with no row, or with a role other than
\* seller and admin, is answered 403 and leaves the products table as it was.
C5_NonSellerForbidden ==
    [][(Answers("POST /api/products")
        /\ res'.caller # Omitted
        /\ LacksRole(users, res'.caller, {"seller", "admin"}))
       => (res'.status = 403 /\ res'.body = {} /\ products' = products)]_vars

\* u3, who has no row, posted a well-formed product after the admin created one
C5_Witness ==
    /\ res.route = "POST /api/products"
    /\ res.status = 403
    /\ res.caller = Some("u3")
    /\ res.req.wellFormed
    /\ \A u \in users : u.id # "u3"
    /\ products # {}

\* C6: the admin routes answer a caller with no row, or with a role other
\* than admin, with 403, which is not the 401 of a request without a session;
\* such a PATCH leaves the applications and the users as they were.
C6_NonAdminForbidden ==
    [][/\ ( /\ \/ Answers("GET /api/admin/applications")
               \/ Answers("PATCH /api/admin/applications/:id")
            /\ res'.caller # Omitted
            /\ LacksRole(users, res'.caller, {"admin"}) )
          => /\ res'.status = 403
             /\ res'.body = {}
             /\ sellerApplications' = sellerApplications
             /\ users' = users
       /\ (clock' = clock /\ res'.caller = Omitted) => res'.status = 401
      ]_vars

\* u2, not an admin, tried to approve the application with id 1
C6_Witness ==
    /\ IsPatch(res, {Some("approved")})
    /\ res.status = 403
    /\ res.caller = Some("u2")
    /\ res.req = [id |-> Some(1), status |-> Some("approved")]
    /\ \E a \in sellerApplications : a.id = 1 /\ a.status = "pending"
    /\ \E u \in users : u.id = "u2" /\ u.role = "buyer"

\* C7: getProducts, with any category filter or none, lists no product whose
\* isApproved is false, and getProduct(id) returns the row with that id
\* whenever there is one.
C7_ListsOnlyApproved ==
    /\ \A categoryId \in {Omitted, Some(0)} \cup {Some(c) : c \in CategoryIds} :
          LET list == getProducts(products, categoryId)
          IN  \A i \in 1..Len(list) : list[i] \in products /\ list[i].isApproved = TRUE
    /\ \A p \in products : getProduct(products, p.id) = {p}

\* an unapproved product was fetched by id, and the list leaves it out
C7_Witness ==
    /\ res.route = "GET /api/products/:id"
    /\ res.status = 200
    /\ \E p \in res.body :
          /\ p \in products
          /\ p.isApproved = FALSE
          /\ LET list == getProducts(products, Some(p.categoryId))
             IN  \A i \in 1..Len(list) : list[i] # p
    /\ \E p \in products : p.isApproved = TRUE

\* C8: every list getRecommendedProducts(limit) may return holds approved
\* products only, as many as limit allows, in non-increasing favoriteCount
\* order, and leaves out no approved product with a greater favoriteCount
\* than one it holds.
C8_RecommendedAreTopByFavorites ==
    \A limit \in (0..MaxLimit) \cup {4} :
    \A list \in getRecommendedProducts(products, limit) :
        LET approved == {p \in products : p.isApproved = TRUE}
            listed   == {list[i] : i \in 1..Len(list)}
        IN  /\ listed \subseteq approved
            /\ Cardinality(listed) = Len(list)
            /\ Len(list) <= limit
            /\ Len(list) = limit \/ listed = approved
            /\ \A i \in 1..Len(list) : \A j \in 1..Len(list) :
                  i < j => list[i].favoriteCount >= list[j].favoriteCount
            /\ \A p \in approved \ listed : \A q \in listed :
                  p.favoriteCount <= q.favoriteCount

\* approved products with counts 2, 1 and 0, and the two highest were returned
C8_Witness ==
    /\ res.route = "GET /api/products/recommended"
    /\ res.req = Some(2)
    /\ Len(res.body) = 2
    /\ res.body[1].favoriteCount = 2
    /\ res.body[2].favoriteCount = 1
    /\ {p.favoriteCount : p \in {x \in products : x.isApproved = TRUE}} = {0, 1, 2}

\* the columns of users a payload may carry
ColumnKept(userData, column, old, new) ==
    IF userData[column] = Omitted THEN new[column] = old[column]
    ELSE new[column] \in userData[column]

\* C9: upsertUser for an identity that has a row either fails and changes
\* nothing, or leaves every column the payload omits at its value, sets the
\* columns it carries and updatedAt, and touches no other row.
C9_UpsertMergesPartially ==
    [][Answers("upsertUser") =>
        \A old \in users :
            old.id = res'.req.id =>
                IF res'.status # 200 THEN users' = users
                ELSE /\ \E new \in users' :
                          /\ users' = (users \ {old}) \cup {new}
                          /\ res'.body = {new}
                          /\ new.id = old.id
                          /\ new.createdAt = old.createdAt
                          /\ new.updatedAt = clock
                          /\ \A column \in {"email", "firstName", "lastName",
                                            "profileImageUrl", "role", "isApproved"} :
                                ColumnKept(res'.req, column, old, new)
      ]_vars

\* u2 logged in with a full profile and was later promoted by the approval
\* payload: the profile is still there
C9_Witness ==
    /\ res.route = "upsertUser"
    /\ res.status = 200
    /\ res.req.id = "u2"
    /\ res.req.email = Omitted /\ res.req.firstName = Omitted
    /\ res.req.role = Some("seller") /\ res.req.isApproved = Some(TRUE)
    /\ \E u \in users :
          /\ res.body = {u}
          /\ u.email = "b@x" /\ u.firstName = "Ann" /\ u.lastName = "Lee"
          /\ u.profileImageUrl = "img"
          /\ u.role = "seller" /\ u.isApproved = TRUE
          /\ u.updatedAt > u.createdAt

\* C11: no two rows of favorites have the same userId and productId, also
\* while requests for the same pair are in progress at the same time.
C11_OneFavoritePerPair ==
    \A f \in favorites : \A g \in favorites :
        (f.userId = g.userId /\ f.productId = g.productId) => f = g

\* a second add for a pair was refused while the first one, whose row is in,
\* had not yet updated the count
C11_Witness ==
    /\ res.route = "POST /api/favorites"
    /\ res.status = 500
    /\ res.req.productId # Omitted
    /\ \E t \in Tasks :
          /\ tasks[t].pc \in {"count", "update"}
          /\ tasks[t].route = "POST /api/favorites"
          /\ tasks[t].caller = res.caller
          /\ tasks[t].req.productId = res.req.productId
          /\ tasks[t].value \subseteq favorites

\* C12: no two rows of cart_items have the same userId and productId, also
\* when requests of one user are in progress at the same time.
C12_OneCartRowPerPair ==
    \A c \in cartItems : \A e \in cartItems :
        (c.userId = e.userId /\ c.productId = e.productId) => c = e

\* the role of the user, Null when the user has no row
RoleOf(us, userId) ==
    IF \E u \in us : Some(u.id) = userId
    THEN (CHOOSE u \in us : Some(u.id) = userId).role
    ELSE Null

\* C13: POST /api/products that succeeds adds one row, whose isApproved is
\* true when the caller is an admin and false when the caller is a seller,
\* whatever isApproved the body carries.
C13_ApprovedIffAdmin ==
    [][(Answers("POST /api/products") /\ res'.status = 200) =>
        \E p \in products' :
            /\ products' = products \cup {p}
            /\ p \notin products
            /\ res'.body = {p}
            /\ p.isApproved = (RoleOf(users, res'.caller) = "admin")
            /\ RoleOf(users, res'.caller) = "seller" => p.isApproved = FALSE
      ]_vars

\* the admin u1 has an approved product, and the seller u2 posted one with
\* isApproved: true in the body, which was stored unapproved
C13_Witness ==
    /\ res.route = "POST /api/products"
    /\ res.status = 200
    /\ res.caller = Some("u2")
    /\ RoleOf(users, Some("u2")) = "seller"
    /\ res.req.isApproved = Some(TRUE)
    /\ \E p \in res.body : p.isApproved = FALSE /\ p.sellerId = "u2" /\ p \in products
    /\ \E p \in products : p.sellerId = "u1" /\ p.isApproved = TRUE

\* C17: every product POST /api/products creates has favoriteCount 0,
\* whatever the body carries.
C17_CreatedWithNoFavorites ==
    (res.route = "POST /api/products" /\ res.status = 200) =>
        \A p \in res.body : p.favoriteCount = 0

\* C14: every row POST /api/favorites, /api/cart, /api/orders and
\* /api/seller-applications insert or return has the caller's identity as its
\* userId, also when the body carries another userId.
C14_RowsBelongToCaller ==
    [][/\ Answers("POST /api/favorites") =>
            \A f \in favorites' \ favorites : Some(f.userId) = res'.caller
       /\ Answers("POST /api/cart") =>
            \A c \in cartItems' \ cartItems : Some(c.userId) = res'.caller
       /\ Answers("POST /api/orders") =>
            \A o \in orders' \ orders : Some(o.userId) = res'.caller
       /\ Answers("POST /api/seller-applications") =>
            \A a \in sellerApplications' \ sellerApplications :
                Some(a.userId) = res'.caller
       /\ ( /\ \/ Answers("POST /api/favorites")
                \/ Answers("POST /api/cart")
                \/ Answers("POST /api/orders")
                \/ Answers("POST /api/seller-applications")
            /\ res'.status = 200 )
          => /\ res'.body # {}
             /\ res'.body \subseteq
                    favorites' \cup cartItems' \cup orders' \cup sellerApplications'
             /\ \A row \in res'.body : Some(row.userId) = res'.caller
      ]_vars

\* u2 posted an order whose body said userId: u1, and the order is u2's
C14_Witness ==
    /\ res.route = "POST /api/orders"
    /\ res.status = 200
    /\ res.caller = Some("u2")
    /\ res.req.userId = Some("u1")
    /\ res.body \subseteq orders
    /\ \E o \in res.body : o.userId = "u2"

\* C18: the sellerId of every order POST /api/orders creates is the sellerId
\* of the product the order names.
C18_OrderSellerIsProductSeller ==
    (res.route = "POST /api/orders" /\ res.status = 200) =>
        \A o \in res.body :
            \E p \in products : p.id = o.productId /\ p.sellerId = o.sellerId

\* the names of the six default categories
DefaultNames == {"Men", "Women", "Gadgets", "Clothing", "Jewelry", "Gifts"}

\* C15: whenever no startup is in progress, the categories table is either
\* still untouched, which it is not once a startup has returned, or holds the
\* six defaults, one row each; no name is ever in two rows; and only a
\* startup that found the table empty inserts a category.
C15_DefaultsInsertedOnce ==
    /\ []( /\ (\A t \in Tasks : tasks[t] = Idle) =>
                \/ categories = {} /\ seq.categories = 1 /\ res # Started
                \/ /\ {c.name : c \in categories} = DefaultNames
                   /\ Cardinality(categories) = 6
           /\ \A c \in categories : \A e \in categories : c.name = e.name => c = e )
    /\ [][categories' # categories =>
            \E t \in Tasks : /\ tasks[t].pc = "create"
                             /\ tasks[t].found = {}
                             /\ tasks'[t] # tasks[t]]_vars

\* two startups have returned, one of which found the table empty after the
\* other and gave up at its first INSERT: six rows, seven ids drawn
C15_Witness ==
    /\ res = Started
    /\ \A t \in Tasks : tasks[t] = Idle
    /\ {c.name : c \in categories} = DefaultNames
    /\ Cardinality(categories) = 6
    /\ seq.categories = 8

\* the last request reached the schema of POST /api/products (its caller is a
\* seller or an admin) or of POST /api/seller-applications with a body the
\* schema does not accept
Malformed(r) ==
    /\ r.route \in {"POST /api/products", "POST /api/seller-applications"}
    /\ r.caller # Omitted
    /\ r.status # 403
    /\ ~r.req.wellFormed

C19_CreatedPending ==
    (res.route = "POST /api/seller-applications" /\ res.status = 200) =>
        \A a \in res.body : a.status = "pending"

\* C20: the status of every seller application is pending, approved or
\* rejected.
C20_StatusIsOneOfThree ==
    \A a \in sellerApplications : a.status \in {"pending", "approved", "rejected"}

-----------------------------------------------------------------------------
(* Cart quantities and cart ownership *)

\* C21: every cart row has a quantity of at least 1, whatever quantity the
\* POST /api/cart requests carried (0, negative, omitted) and whatever was
\* removed.
C21_QuantityAtLeastOne ==
    \A c \in cartItems : c.quantity >= 1

\* C22: a request to DELETE /api/cart/:id removes no cart row of a user other
\* than its caller.
C22_RemovesOnlyOwnRows ==
    [][Answers("DELETE /api/cart/:id")
         => \A c \in cartItems \ cartItems' : Some(c.userId) = res'.caller]_vars

-----------------------------------------------------------------------------
(* Races of the read-then-write operations *)

\* the request in progress t runs its last statement
Finishes(t, pc) == tasks[t].pc = pc /\ tasks'[t].pc = "idle"

\* no request is in progress
Quiescent == \A t \in Tasks : tasks[t].pc = "idle"

\* C23: the recompute of favoriteCount is a count query followed by a separate
\* update: the update writes the count that was read on the one product of
\* the request, whatever happened to the favorites since, so that it leaves
\* the product's favoriteCount equal to the number of its favorite rows
\* exactly when that number is still the one read. Adds and removals of
\* different users on one product that interleave can therefore all finish
\* with favoriteCount different from the number of rows (C23_Witness).
C23_UpdateWritesCountRead ==
    [][\A t \in Tasks : Finishes(t, "update") =>
          LET pid  == TaskProductId(tasks[t])
              read == Get(tasks[t].found, 0)
          IN  /\ \A p \in products' : p.id = pid => p.favoriteCount = read
              /\ {p \in products' : p.id # pid} = {p \in products : p.id # pid}
              /\ (\A p \in products' : p.id = pid =>
                     p.favoriteCount = CountFavorites(favorites', pid))
                 <=> ((\E p \in products : p.id = pid)
                         => read = CountFavorites(favorites, pid))]_vars

\* a removal by one user has been answered, a favorite of another user on the
\* same product is in place, no request is in progress, and the product's
\* favoriteCount is not the number of its favorite rows
C23_Witness ==
    /\ Quiescent
    /\ res.route = "DELETE /api/favorites/:productId"
    /\ res.status = 200
    /\ \E p \in products : \E f \in favorites :
          /\ res.req = Some(p.id)
          /\ f.productId = p.id
          /\ Some(f.userId) # res.caller
          /\ p.favoriteCount # CountFavorites(favorites, p.id)

\* C24: addToCart reads the row and then writes the sum it computed from what
\* it read, with no guard on the row being unchanged: the write sets the
\* quantity read plus the amount requested, so that when another add to the
\* row was written in between, the quantity ends below the sum of the row's
\* first quantity and the two amounts (C24_Witness: one update is lost).
C24_WriteSetsSumOfRead ==
    [][\A t \in Tasks : Finishes(t, "write") =>
          \A e \in tasks[t].found : \A c \in cartItems : c.id = e.id =>
              LET amount == Get(tasks[t].req.quantity, 1)
              IN  \E w \in cartItems' :
                     /\ w.id = e.id
                     /\ w.quantity = e.quantity + amount
                     /\ c.quantity > e.quantity => w.quantity < c.quantity + amount]_vars

\* an add of the caller for the product has been answered with the row's
\* quantity raised, while another add of the same caller for the same product,
\* which read the row before that, has yet to write: its write loses the first
C24_Witness ==
    \E t \in Tasks : \E e \in tasks[t].found : \E c \in cartItems :
        /\ tasks[t].pc = "write"
        /\ \A u \in Tasks \ {t} : tasks[u].pc = "idle"
        /\ c.id = e.id
        /\ c.quantity > e.quantity
        /\ res.route = "POST /api/cart"
        /\ res.caller = tasks[t].caller
        /\ res.req.productId = tasks[t].req.productId
        /\ res.body = {c}

-----------------------------------------------------------------------------
(* Removal of favorites *)

\* C25: removeFromFavorites, for a user and a product id, never raises, leaves
\* the favorites rows as they are when the user has no favorite on the
\* product, leaves the favorites of other users and on other products as they
\* are, and is idempotent: a second removal changes neither the favorites
\* rows nor any favoriteCount.
C25_RemovalIsIdempotent ==
    [][Answers("DELETE /api/favorites/:productId") /\ res'.req # Omitted =>
          LET userId == Get(res'.caller, Null)
              pid    == Get(res'.req, 0)
              mine   == {f \in favorites : f.userId = userId /\ f.productId = pid}
              twice  == removeFromFavorites(favorites', products', userId, res'.req)
          IN  /\ res'.status = 200
              /\ favorites' = favorites \ mine
              /\ mine = {} => favorites' = favorites
              /\ ~twice.threw
              /\ twice.favorites = favorites'
              /\ twice.products = products']_vars

\* a user without a favorite on product 1 has removed it: the one favorite
\* there ever was is another user's, on that product, and is still in place
C25_Witness ==
    /\ res.route = "DELETE /api/favorites/:productId"
    /\ res.status = 200
    /\ res.req = Some(1)
    /\ seq.favorites = 2
    /\ \E f \in favorites : f.productId = 1 /\ Some(f.userId) # res.caller
    /\ \E p \in products : p.id = 1 /\ p.favoriteCount = 1

-----------------------------------------------------------------------------
(* Review of applications *)

\* C26: a PATCH /api/admin/applications/:id of an admin, with any status, for
\* an id that no application has is answered as not found, neither as a
\* server error nor as a success, and changes no application and no user.
C26_AbsentIsNotFound ==
    [][(/\ Answers("PATCH /api/admin/applications/:id")
        /\ IsPatch(res', {Some(s) : s \in StatusValues})
        /\ IsAdmin(users, Get(res'.caller, Null))
        /\ res'.req.id # Omitted
        /\ \A a \in sellerApplications : Some(a.id) # res'.req.id)
       => /\ res'.status = 404
          /\ sellerApplications' = sellerApplications
          /\ users' = users]_vars

\* the routes of the admin
AdminRoutes == {"GET /api/admin/applications", "PATCH /api/admin/applications/:id"}

\* C28: an approval that succeeds leaves the applicant with role seller and
\* isApproved true whatever the applicant's role was, so an applicant who was
\* an admin is one no longer; and a caller whose role is seller is answered
\* 403 by the admin routes.
C28_ApprovalOverwritesRole ==
    [][/\ ( /\ Answers("PATCH /api/admin/applications/:id")
            /\ IsPatch(res', {Some("approved")})
            /\ res'.status = 200 )
          => \A a \in res'.body : \A prior \in Roles \cup {Null} :
                RoleOf(users, Some(a.userId)) = prior =>
                   /\ RoleOf(users', Some(a.userId)) = "seller"
                   /\ ~IsAdmin(users', a.userId)
                   /\ \A u \in users' : u.id = a.userId => u.isApproved = TRUE
       /\ ( /\ \E route \in AdminRoutes : Answers(route)
            /\ RoleOf(users, res'.caller) = "seller" )
          => res'.status = 403
      ]_vars

\* u1, an admin at the start, has applied, has had the application approved,
\* and is now a seller whom an admin route has answered 403
C28_Witness ==
    /\ res.route \in AdminRoutes
    /\ res.caller = Some("u1")
    /\ res.status = 403
    /\ RoleOf(users, Some("u1")) = "seller"
    /\ \E a \in sellerApplications : a.userId = "u1" /\ a.status = "approved"

\* the review buttons of the admin dashboard are rendered for this application
ShowsReviewButtons(application) == application.status = "pending"

\* C30: a PATCH of an admin for an application that exists, with any status
\* value, succeeds and sets that status whatever the application's status
\* was, one for which the dashboard shows no buttons included; with status
\* "approved" it leaves the applicant a seller and approved, whatever the
\* application's status was.
C30_AnyStatusAfterAny ==
    [][( /\ Answers("PATCH /api/admin/applications/:id")
         /\ IsPatch(res', {Some(s) : s \in StatusValues})
         /\ IsAdmin(users, Get(res'.caller, Null)) )
       => \A a \in sellerApplications : Some(a.id) = res'.req.id =>
             \A shown \in BOOLEAN : ShowsReviewButtons(a) = shown =>
                /\ res'.status = 200
                /\ res'.body = {[a EXCEPT !.status = Get(res'.req.status, Null)]}
                /\ res'.body \subseteq sellerApplications'
                /\ res'.req.status = Some("approved") =>
                      \E u \in users' : /\ u.id = a.userId
                                        /\ u.role = "seller"
                                        /\ u.isApproved = TRUE
      ]_vars

\* the application of u3, approved at some time since u3 is a seller, which
\* the dashboard no longer offers for review, has been rejected
C30_Witness ==
    /\ IsPatch(res, {Some("rejected")})
    /\ res.status = 200
    /\ \E a \in res.body :
          /\ a.userId = "u3"
          /\ a.status = "rejected"
          /\ ~ShowsReviewButtons(a)
          /\ a \in sellerApplications
    /\ RoleOf(users, Some("u3")) = "seller"

-----------------------------------------------------------------------------
(* Ownership of created products *)

\* C29: the product a POST /api/products creates has the caller as its
\* sellerId, whatever sellerId the body carries.
C29_SellerIsCaller ==
    [][(Answers("POST /api/products") /\ res'.status = 200) =>
          /\ products' # products
          /\ \A p \in products' \ products :
                /\ Some(p.sellerId) = res'.caller
                /\ res'.body = {p}]_vars

\* the seller u2 posted a product whose body names u1 as the seller, and the
\* product stored is u2's
C29_Witness ==
    /\ res.route = "POST /api/products"
    /\ res.status = 200
    /\ res.caller = Some("u2")
    /\ res.req.sellerId = "u1"
    /\ \E p \in res.body : p.sellerId = "u2" /\ p \in products
    /\ \A p \in products : p.sellerId = "u2"

-----------------------------------------------------------------------------
(* The one writer of the users table *)

\* C27: over the requests of every route, the users table changes only in a
\* PATCH /api/admin/applications/:id with status "approved" that a caller who
\* is an admin when it is handled sends and that succeeds, and then only in
\* the applicant's row, which is left with role seller and isApproved true; no
\* other route, and no request of a caller who is not an admin, creates or
\* modifies a user row.
C27_OnlyApprovalWritesUsers ==
    [][users' # users =>
          /\ Answers("PATCH /api/admin/applications/:id")
          /\ IsPatch(res', {Some("approved")})
          /\ res'.status = 200
          /\ RoleOf(users, res'.caller) = "admin"
          /\ \E a \in res'.body :
                /\ {u \in users' : u.id # a.userId} = {u \in users : u.id # a.userId}
                /\ \A u \in users' : u.id = a.userId =>
                      u.role = "seller" /\ u.isApproved = TRUE
      ]_vars

\* the admin u1 has approved the application of the buyer u3, whose row is
\* now a seller's, and the rows of u1 and of u2 are those of the start
C27_Witness ==
    /\ IsPatch(res, {Some("approved")})
    /\ res.status = 200
    /\ res.caller = Some("u1")
    /\ \E a \in res.body : a.userId = "u3"
    /\ \E u \in users : /\ u.id = "u3"
                        /\ u.role = "seller"
                        /\ u.isApproved = TRUE
    /\ {u \in users : u.id # "u3"} = {u \in AdminSellerAndBuyer : u.id # "u3"}

====
